---- MODULE Spec2Model ----
(***************************************************************************)
(* Chapter09/tls-server.c: a sequential TLS server.  main checks argc and  *)
(* calls run_tls_server, which builds the SSL_CTX, binds the port and then *)
(* accepts connections in an endless loop, handing each one to             *)
(* handle_accepted_connection.                                             *)
(*                                                                         *)
(* The OpenSSL calls are the environment: each call's result is a          *)
(* nondeterministic choice among the results the code tests for, and each  *)
(* call may leave a record in the thread's OpenSSL error queue.            *)
(***************************************************************************)
EXTENDS Integers, Sequences, FiniteSets, TLC

(* ---------------------------------------------------------------- bounds *)

\* Longest byte stream one client sends before its end event.
MaxStream == 5

\* Capacity of in_buf (BUF_SIZE is 16 * 1024 at line 151; scaled down so that
\* lines longer than the buffer occur within MaxStream bytes).
BUF_SIZE == 4

\* Most records the error queue holds at once.
MaxErr == 2

\* Most iterations of the accept loop (calls of BIO_do_accept at line 96).
MaxIter == 3

\* Largest argc main is started with.
MaxArgc == 5

(* ------------------------------------------------------------- constants *)

\* strlen(response), lines 187-194: 17 + 26 + 19 + 28 + 2 + 27 bytes.
response_length == 119

\* The bytes a client can send: an ordinary character, carriage return,
\* newline.
Bytes == {"a", "CR", "LF"}

\* What follows the last byte of a client's stream: a close_notify alert
\* (clean TLS shutdown), a transport failure, or nothing at all (the client
\* stays connected and silent, so a read blocks for ever).
EndKinds == {"close_notify", "error", "silent"}

Streams == UNION {[1..n -> Bytes] : n \in 0..MaxStream}

\* Results of BIO_write the code can see (line 199): failure, nothing, a part
\* of the response, all of it.
WriteResults == {-1, 0, 1, response_length - 1, response_length}

MsgUsage == "Usage: PORT SERVER_KEYPAIR_FILE SERVER_CERT_CHAIN_FILE"
MsgCommFailed == "TLS communication failed"
MsgCommSucceeded == "TLS communication succeeded"
MsgKey == "Could not load server keypair from file"
MsgCert == "Could not load server certificate chain from file"
MsgMismatch == "Server keypair does not match server certificate"
MsgBind == "Could not bind to port and start listening for incoming TCP connections"
MsgSetup == "Unexpected error during TLS server setup"
MsgAccept == "Error when trying to accept connection"
MsgQueue == "Errors from the OpenSSL error queue:"
MsgHandshake == "TLS handshaking error"
MsgRead == "Error while reading data from the client"
MsgWrite == "Could not send data all to the client"

OutListening == "*** Listening on port"
OutReceiving == "*** Receiving from the client:"
OutReceived == "*** Receiving from the client finished"
OutSending == "*** Sending to the client:"
OutSent == "*** Sending to the client finished"

(* ----------------------------------------------------------------- state *)

VARIABLES
    pc,            \* position in main / run_tls_server / handle_accepted_connection
    argc,          \* main's argc
    error_stream,  \* the FILE* error_stream parameter: TRUE a stream, FALSE NULL
    key_ok,        \* the key file holds a loadable private key
    cert_ok,       \* the certificate file holds a loadable chain
    match_ok,      \* the private key matches the certificate
    errq,          \* the OpenSSL error queue
    ctx,           \* the SSL_CTX: "NULL", "ctx" or "freed"
    accept_bio,    \* the accept BIO: "NULL", "created", "listening" or "freed"
    err,           \* run_tls_server's err: result of its last OpenSSL call
    run_exit,      \* run_tls_server's exit_code
    setup_ops,     \* OpenSSL calls made by run_tls_server before the loop
    iter,          \* number of BIO_do_accept calls made by the loop
    live,          \* number of accepted connections not yet freed
    ops,           \* calls made on the connection of the current iteration
    ssl_bio,       \* "NULL", "open" or "freed"
    in_buf_mem,    \* in_buf's allocation: "NULL", "alloc" or "freed"
    in_buf,        \* bytes held by in_buf (the C string of the last read)
    stream,        \* bytes the client has sent and the server has not read
    sent,          \* all the bytes the client of this connection sends
    endkind,       \* what follows the client's last byte
    recv_shutdown, \* SSL_get_shutdown(ssl) & SSL_RECEIVED_SHUTDOWN
    nbytes_read,   \* result of the last BIO_get_line (line 170)
    ssl_error,     \* SSL_get_error of the last failed read (line 172)
    nbytes_written,\* result of BIO_write (line 199): -2 before the call
    h_exit,        \* handle_accepted_connection's exit_code
    h_ret,         \* value the handler call of this iteration returned: -1 none
    run_ret,       \* value run_tls_server returned: -1 not returned
    exit_code,     \* main's exit code: -1 while the process runs
    err_out,       \* messages written to error_stream / stderr in this iteration
    reported,      \* error-queue records printed by ERR_print_errors_fp, same span
    std_out        \* stdout of this iteration: banners and echoed data

vars == <<pc, argc, error_stream, key_ok, cert_ok, match_ok, errq, ctx,
          accept_bio, err, run_exit, setup_ops, iter, live, ops, ssl_bio,
          in_buf_mem, in_buf, stream, sent, endkind, recv_shutdown, nbytes_read, ssl_error,
          nbytes_written, h_exit, h_ret, run_ret, exit_code, err_out, reported,
          std_out>>

\* The inputs of one run: fixed when the process starts.
inputVars == <<argc, error_stream, key_ok, cert_ok, match_ok>>

\* State of run_tls_server outside the connection it is serving.
serverVars == <<ctx, accept_bio, err, run_exit, setup_ops, iter, run_ret,
                exit_code>>

\* State of the connection being served and of its handler call.
connVars == <<ops, ssl_bio, in_buf_mem, in_buf, stream, sent, endkind,
              recv_shutdown, nbytes_read, ssl_error, nbytes_written, h_exit>>

(* --------------------------------------------------------------- helpers *)

Min(a, b) == IF a < b THEN a ELSE b

Count(s, x) == Cardinality({i \in 1..Len(s) : s[i] = x})

Has(s, x) == \E i \in 1..Len(s) : s[i] = x

\* The queues an OpenSSL call `op` can leave behind when it starts with
\* queue q: it raises nothing, or one record (ERR_raise inside the library).
\* The record carries the loop iteration `it` during which it was raised
\* (0 before the loop).
Raise(q, op, it) ==
    {q} \cup (IF Len(q) < MaxErr
              THEN {Append(q, [op |-> op, iter |-> it])}
              ELSE {})

\* fprintf(error_stream, msg) under `if (error_stream)`.
Report(out, msg) == IF error_stream THEN Append(out, msg) ELSE out

Banner(text) == [k |-> "banner", v |-> <<text>>]
Echo(bytes) == [k |-> "data", v |-> bytes]

\* The test of the queue with its sense inverted.
ERR_peek_errorInverted(q) == q = <<>>

\* ERR_peek_error() != 0.
ERR_peek_error(q) == q # <<>>

\* ERR_clear_error(): the queue afterwards.
ERR_clear_error(q) == <<>>

\* A drain block that prints the records and leaves them in the queue.
DrainQueueKeeps(q) == q

\* The block that drains the queue (lines 100-106, 133-140, 218-225) when
\* ERR_peek_error() is nonzero: what it adds to the error stream, the records
\* ERR_print_errors_fp prints, and the queue it leaves.
DrainOut(out, q) ==
    IF ERR_peek_error(q) THEN Report(out, MsgQueue) ELSE out

\* A drain block that clears the queue without printing its records.
DrainReportedSilent(rep, q) == rep

DrainReported(rep, q) ==
    IF ERR_peek_error(q) /\ error_stream THEN rep \o q ELSE rep

DrainQueue(q) ==
    IF ERR_peek_error(q) THEN ERR_clear_error(q) ELSE q

(* ------------------------------------------------------------------ Init *)

NoConn ==
    /\ ops = <<>>
    /\ ssl_bio = "NULL"
    /\ in_buf_mem = "NULL"
    /\ in_buf = <<>>
    /\ stream = <<>>
    /\ sent = <<>>
    /\ endkind = "silent"
    /\ recv_shutdown = FALSE
    /\ nbytes_read = 0
    /\ ssl_error = "none"
    /\ nbytes_written = -2
    /\ h_exit = 0

\* The process is started through main with any argc, which passes stderr as
\* error_stream (line 25); or run_tls_server is called on its own with the
\* NULL error_stream its `if (error_stream)` tests provide for (argc = 0
\* marks that there is no main to return to).
Init ==
    /\ \/ pc = "main" /\ argc \in 1..MaxArgc /\ error_stream = TRUE
       \/ pc = "run_tls_server" /\ argc = 0 /\ error_stream = FALSE
    /\ key_ok \in BOOLEAN
    /\ cert_ok \in BOOLEAN
    /\ match_ok \in BOOLEAN
    /\ errq = <<>>
    /\ ctx = "NULL"
    /\ accept_bio = "NULL"
    /\ err = 1
    /\ run_exit = 0
    /\ setup_ops = <<>>
    /\ iter = 0
    /\ live = 0
    /\ NoConn
    /\ h_ret = -1
    /\ run_ret = -1
    /\ exit_code = -1
    /\ err_out = <<>>
    /\ reported = <<>>
    /\ std_out = <<>>

(* ------------------------------------------------------------------ main *)

\* main, line 15: the argument counts that pass the usage test.
ArgcAccepted(n) == n = 3 \/ n = 4

\* main, lines 12-25: the usage test, then the call of run_tls_server.
Main ==
    /\ pc = "main"
    /\ IF ~ArgcAccepted(argc)
       THEN /\ err_out' = Append(err_out, MsgUsage)
            /\ exit_code' = 1
            /\ pc' = "exited"
       ELSE /\ pc' = "run_tls_server"
            /\ UNCHANGED <<err_out, exit_code>>
    /\ UNCHANGED live
    /\ UNCHANGED <<inputVars, errq, ctx, accept_bio, err, run_exit, setup_ops,
                   iter, run_ret, connVars, h_ret, reported, std_out>>

\* main, lines 25-37: run_tls_server has returned err.
MainReturn ==
    /\ pc = "returned"
    /\ argc # 0
    /\ IF run_ret # 0
       THEN /\ err_out' = Append(err_out, MsgCommFailed)
            /\ exit_code' = 1
       ELSE /\ err_out' = Append(err_out, MsgCommSucceeded)
            /\ exit_code' = 0
    /\ pc' = "exited"
    /\ UNCHANGED live
    /\ UNCHANGED <<inputVars, errq, ctx, accept_bio, err, run_exit, setup_ops,
                   iter, run_ret, connVars, h_ret, reported, std_out>>

(* ------------------------------------------------- run_tls_server: setup *)

\* A failed setup call that reports and carries on to the bind.
SetupFailureFallsThrough == "bind"

\* Where `goto failure` of run_tls_server leads (lines 125-127).
SetupFailure == "srv_cleanup"

\* Lines 40-50: the locals, ERR_clear_error, SSL_CTX_new.
RunEnter ==
    /\ pc = "run_tls_server"
    /\ run_exit' = 0
    /\ err' = 1
    /\ errq' = ERR_clear_error(errq)
    /\ ctx' = "ctx"
    /\ setup_ops' = Append(setup_ops, "SSL_CTX_new")
    /\ pc' = "load_key"
    /\ UNCHANGED live
    /\ UNCHANGED <<inputVars, accept_bio, iter, run_ret, exit_code, connVars,
                   h_ret, err_out, reported, std_out>>

\* One checked setup call (lines 52-57, 59-64, 66-71): the call `op` succeeds
\* or not as `ok` says; on failure its message is reported and the function
\* goes to failure, on success it goes on to `next`.
SetupCall(at, op, ok, msg, next) ==
    /\ pc = at
    /\ setup_ops' = Append(setup_ops, op)
    /\ errq' \in Raise(errq, op, 0)
    /\ IF ok
       THEN /\ err' = 1
            /\ pc' = next
            /\ UNCHANGED <<err_out, run_exit>>
       ELSE /\ err' \in {-1, 0}
            /\ err_out' = Report(err_out, msg)
            /\ run_exit' = 1
            /\ pc' = SetupFailure
    /\ UNCHANGED live
    /\ UNCHANGED <<inputVars, ctx, accept_bio, iter, run_ret, exit_code,
                   connVars, h_ret, reported, std_out>>

\* Lines 52-57.
LoadKey ==
    SetupCall("load_key", "SSL_CTX_use_PrivateKey_file", key_ok, MsgKey,
              "load_cert")

\* Lines 59-64.
LoadCert ==
    SetupCall("load_cert", "SSL_CTX_use_certificate_chain_file", cert_ok,
              MsgCert, "check_key")

\* Lines 66-73.
CheckKey ==
    SetupCall("check_key", "SSL_CTX_check_private_key", match_ok, MsgMismatch,
              "bind")

\* Lines 75-83: BIO_new_accept, then the first BIO_do_accept, which binds the
\* port and listens.
Bind ==
    /\ pc = "bind"
    /\ setup_ops' = setup_ops \o <<"BIO_new_accept", "BIO_do_accept">>
    /\ errq' \in Raise(errq, "BIO_do_accept", 0)
    /\ \E ok \in BOOLEAN :
          IF ok
          THEN /\ err' = 1
               /\ accept_bio' = "listening"
               /\ pc' = "setup_peek"
               /\ UNCHANGED <<err_out, run_exit>>
          ELSE /\ err' \in {-1, 0}
               /\ accept_bio' = "created"
               /\ err_out' = Report(err_out, MsgBind)
               /\ run_exit' = 1
               /\ pc' = SetupFailure
    /\ UNCHANGED live
    /\ UNCHANGED <<inputVars, ctx, iter, run_ret, exit_code, connVars, h_ret,
                   reported, std_out>>

\* Lines 85-89: a record left by the setup calls is a failure.
SetupPeek ==
    /\ pc = "setup_peek"
    /\ IF ERR_peek_error(errq)
       THEN /\ err_out' = Report(err_out, MsgSetup)
            /\ run_exit' = 1
            /\ pc' = SetupFailure
       ELSE /\ pc' = "accept"
            /\ UNCHANGED <<err_out, run_exit>>
    /\ UNCHANGED live
    /\ UNCHANGED <<inputVars, errq, ctx, accept_bio, err, setup_ops, iter,
                   run_ret, exit_code, connVars, h_ret, reported, std_out>>

\* Lines 125-142: failure / cleanup of run_tls_server, and its return.
SrvCleanup ==
    /\ pc = "srv_cleanup"
    /\ accept_bio' = IF accept_bio # "NULL" THEN "freed" ELSE accept_bio
    /\ ctx' = IF ctx # "NULL" THEN "freed" ELSE ctx
    /\ \E q \in Raise(errq, "BIO_free_all", iter) :
          /\ run_exit' = IF ERR_peek_error(q) THEN 1 ELSE run_exit
          /\ err_out' = DrainOut(err_out, q)
          /\ reported' = DrainReported(reported, q)
          /\ errq' = DrainQueue(q)
          /\ run_ret' = run_exit'
    /\ pc' = "returned"
    /\ UNCHANGED live
    /\ UNCHANGED <<inputVars, err, setup_ops, iter, exit_code, connVars,
                   h_ret, std_out>>

(* -------------------------------------------- run_tls_server: accept loop *)

\* A failed accept that leaves the loop for the cleanup (`break`).
AfterAcceptFailureGivesUp == "srv_cleanup"

\* A failed accept that falls through to the dispatch (no `continue`).
AfterAcceptFailureFallsThrough == "enter"

\* Line 108: where `continue` after a failed accept leads.
AfterAcceptFailure == "accept"

\* The loop testing the handler's result and giving up on failure.
AfterHandlerChecked(ret) == IF ret # 0 THEN "srv_cleanup" ELSE "accept"

\* Lines 119-121: the handler's return value is dropped and the loop goes
\* round, whatever `ret` is.
AfterHandler(ret) == "accept"

\* Lines 92-108: BIO_do_accept fails; the error is reported, the queue is
\* drained, and the loop continues.  (err_out, reported, std_out, h_ret and
\* the connection's variables hold what the loop's latest pass produced.)
AcceptFail ==
    /\ pc = "accept"
    /\ iter < MaxIter
    /\ iter' = iter + 1
    /\ std_out' = <<Banner(OutListening)>>
    /\ err' \in {-1, 0}
    /\ \E q \in Raise(errq, "BIO_do_accept", iter + 1) :
          /\ err_out' = DrainOut(Report(<<>>, MsgAccept), q)
          /\ reported' = DrainReported(<<>>, q)
          /\ errq' = DrainQueue(q)
    /\ ops' = <<>>
    /\ ssl_bio' = "NULL"
    /\ in_buf_mem' = "NULL"
    /\ in_buf' = <<>>
    /\ stream' = <<>>
    /\ sent' = <<>>
    /\ endkind' = "silent"
    /\ recv_shutdown' = FALSE
    /\ nbytes_read' = 0
    /\ ssl_error' = "none"
    /\ nbytes_written' = -2
    /\ h_exit' = 0
    /\ h_ret' = -1
    /\ pc' = AfterAcceptFailure
    /\ UNCHANGED live
    /\ UNCHANGED <<inputVars, ctx, accept_bio, run_exit, setup_ops, run_ret,
                   exit_code>>

\* Lines 92-119: BIO_do_accept returns a connection from a client, which
\* will send `sent` and then end as `endkind` says; the socket BIO is popped,
\* the SSL BIO is created and pushed on it, and the handler is called.
AcceptOk ==
    /\ pc = "accept"
    /\ iter < MaxIter
    /\ iter' = iter + 1
    /\ std_out' = <<Banner(OutListening)>>
    /\ err_out' = <<>>
    /\ reported' = <<>>
    /\ err' = 1
    /\ errq' \in Raise(errq, "BIO_do_accept", iter + 1)
    /\ sent' \in Streams
    /\ stream' = sent'
    /\ endkind' \in EndKinds
    /\ ssl_bio' = "open"
    /\ live' = live + 1
    /\ ops' = <<>>
    /\ in_buf_mem' = "NULL"
    /\ in_buf' = <<>>
    /\ recv_shutdown' = FALSE
    /\ nbytes_read' = 0
    /\ ssl_error' = "none"
    /\ nbytes_written' = -2
    /\ h_exit' = 0
    /\ h_ret' = -1
    /\ pc' = "enter"
    /\ UNCHANGED <<inputVars, ctx, accept_bio, run_exit, setup_ops, run_ret,
                   exit_code>>

(* ------------------------------------------- handle_accepted_connection *)

\* A failure path that sets exit_code and carries on with the response.
HandlerFailureFallsThrough == "write"

\* Where `goto failure` of the handler leads (lines 211-213).
HandlerFailure == "h_cleanup"

\* The shutdown placed before the response is written.
AfterShutdownWrites == "write"

\* Line 209: where the handler goes after BIO_ssl_shutdown.
AfterShutdown == "h_cleanup"

\* Line 155: the queue the handler starts its handshake with.
QueueAtEntry(q) == ERR_clear_error(q)

\* Lines 145-155: exit_code = 0, malloc of in_buf, ERR_clear_error.
HandlerEnter ==
    /\ pc = "enter"
    /\ h_exit' = 0
    /\ in_buf_mem' = "alloc"
    /\ errq' = QueueAtEntry(errq)
    /\ pc' = "handshake"
    /\ UNCHANGED live
    /\ UNCHANGED <<inputVars, serverVars, ops, ssl_bio, in_buf, stream, sent,
                   endkind, recv_shutdown, nbytes_read, ssl_error,
                   nbytes_written, h_ret, err_out, reported, std_out>>

\* Lines 157-168: BIO_do_handshake; on success BIO_get_ssl and the banner.
Handshake ==
    /\ pc = "handshake"
    /\ ops' = Append(ops, "BIO_do_handshake")
    /\ errq' \in Raise(errq, "BIO_do_handshake", iter)
    /\ \E ok \in BOOLEAN :
          IF ok
          THEN /\ std_out' = Append(std_out, Banner(OutReceiving))
               /\ pc' = "loop_check"
               /\ UNCHANGED <<err_out, h_exit>>
          ELSE /\ err_out' = Report(err_out, MsgHandshake)
               /\ h_exit' = 1
               /\ pc' = HandlerFailure
               /\ UNCHANGED std_out
    /\ UNCHANGED live
    /\ UNCHANGED <<inputVars, serverVars, ssl_bio, in_buf_mem, in_buf, stream,
                   sent, endkind, recv_shutdown, nbytes_read, ssl_error,
                   nbytes_written, h_ret, reported>>

\* Line 169: the loop condition; a set received-shutdown flag ends the loop
\* (line 185 prints the banner).
LoopCheck ==
    /\ pc = "loop_check"
    /\ IF recv_shutdown
       THEN /\ std_out' = Append(std_out, Banner(OutReceived))
            /\ pc' = "write"
       ELSE /\ pc' = "get_line"
            /\ UNCHANGED std_out
    /\ UNCHANGED live
    /\ UNCHANGED <<inputVars, serverVars, connVars, errq, h_ret, err_out,
                   reported>>

\* BIO_get_line(ssl_bio, in_buf, BUF_SIZE): the number of bytes of s it
\* stores: up to and including the first newline, at most BUF_SIZE - 1.
FirstNewline(s) ==
    IF Has(s, "LF")
    THEN CHOOSE i \in 1..Len(s) :
            s[i] = "LF" /\ \A j \in 1..(i - 1) : s[j] # "LF"
    ELSE 0

LineLen(s) ==
    Min(IF FirstNewline(s) = 0 THEN Len(s) ELSE FirstNewline(s), BUF_SIZE - 1)

\* The read stopped at a newline or at the buffer's capacity, so it did not
\* run into the end of what the client sent.
LineComplete(s) ==
    LET n == LineLen(s)
    IN  n > 0 /\ (s[n] = "LF" \/ n = BUF_SIZE - 1)

\* A terminator test that knows the bare newline only.
IsTerminatorBareOnly(buf) == buf = <<"LF">>

\* Line 182: !strcmp(in_buf, "\r\n") || !strcmp(in_buf, "\n").
IsTerminator(buf) == buf = <<"CR", "LF">> \/ buf = <<"LF">>

\* A read loop that treats every failed read as an error.
ReadNeverEndsLoop(e) == FALSE

\* Lines 172-174: the SSL_get_error values on which a failed read ends the
\* loop normally.
ReadEndsLoop(e) == e = "SSL_ERROR_ZERO_RETURN"

\* SSL_get_error after a read that returned <= 0.
ReadErrors(kind) ==
    IF kind = "close_notify"
    THEN {"SSL_ERROR_ZERO_RETURN"}
    ELSE {"SSL_ERROR_SYSCALL", "SSL_ERROR_SSL"}

\* Lines 170-184: one pass of the read loop.  A read that runs out of bytes
\* meets the client's end event: after close_notify the received-shutdown
\* flag is set; a silent client makes the read block (the action is not
\* enabled).
GetLine ==
    /\ pc = "get_line"
    /\ LineComplete(stream) \/ endkind # "silent"
    /\ ops' = IF LineLen(stream) > 0
              THEN ops \o <<"BIO_get_line", "fwrite">>
              ELSE Append(ops, "BIO_get_line")
    /\ recv_shutdown' =
          (recv_shutdown \/ (~LineComplete(stream) /\ endkind = "close_notify"))
    /\ stream' = SubSeq(stream, LineLen(stream) + 1, Len(stream))
    /\ IF LineLen(stream) > 0
       THEN /\ nbytes_read' = LineLen(stream)
            /\ in_buf' = SubSeq(stream, 1, LineLen(stream))
            /\ std_out' =
                  IF IsTerminator(in_buf')
                  THEN std_out \o <<Echo(in_buf'), Banner(OutReceived)>>
                  ELSE Append(std_out, Echo(in_buf'))
            /\ pc' = IF IsTerminator(in_buf') THEN "write" ELSE "loop_check"
            /\ errq' \in (IF LineComplete(stream)
                           THEN {errq}
                           ELSE Raise(errq, "BIO_get_line", iter))
            /\ UNCHANGED <<ssl_error, err_out, h_exit>>
       ELSE /\ nbytes_read' \in {-1, 0}
            /\ in_buf' = <<>>
            /\ ssl_error' \in ReadErrors(endkind)
            /\ errq' \in Raise(errq, "BIO_get_line", iter)
            /\ IF ReadEndsLoop(ssl_error')
               THEN /\ std_out' = Append(std_out, Banner(OutReceived))
                    /\ pc' = "write"
                    /\ UNCHANGED <<err_out, h_exit>>
               ELSE /\ err_out' = Report(err_out, MsgRead)
                    /\ h_exit' = 1
                    /\ pc' = HandlerFailure
                    /\ UNCHANGED std_out
    /\ UNCHANGED live
    /\ UNCHANGED <<inputVars, serverVars, ssl_bio, in_buf_mem, sent, endkind,
                   nbytes_written, h_ret, reported>>

\* A test that takes any accepted byte for a complete write.
WroteAny(n) == n > 0

\* Line 200: the write took the whole response.
WroteAll(n) == n = response_length

\* Lines 187-205: the response is printed and written once.
Write ==
    /\ pc = "write"
    /\ ops' = Append(ops, "BIO_write")
    /\ nbytes_written' \in WriteResults
    /\ errq' \in Raise(errq, "BIO_write", iter)
    /\ IF WroteAll(nbytes_written')
       THEN /\ std_out' = std_out \o <<Banner(OutSending), Banner("response"),
                                         Banner(OutSent)>>
            /\ pc' = "shutdown"
            /\ UNCHANGED <<err_out, h_exit>>
       ELSE /\ std_out' = std_out \o <<Banner(OutSending), Banner("response")>>
            /\ err_out' = Report(err_out, MsgWrite)
            /\ h_exit' = 1
            /\ pc' = HandlerFailure
    /\ UNCHANGED live
    /\ UNCHANGED <<inputVars, serverVars, ssl_bio, in_buf_mem, in_buf, stream,
                   sent, endkind, recv_shutdown, nbytes_read, ssl_error, h_ret,
                   reported>>

\* Lines 207-209: BIO_ssl_shutdown, whose result is not looked at.
Shutdown ==
    /\ pc = "shutdown"
    /\ ops' = Append(ops, "BIO_ssl_shutdown")
    /\ errq' \in Raise(errq, "BIO_ssl_shutdown", iter)
    /\ pc' = AfterShutdown
    /\ UNCHANGED live
    /\ UNCHANGED <<inputVars, serverVars, ssl_bio, in_buf_mem, in_buf, stream,
                   sent, endkind, recv_shutdown, nbytes_read, ssl_error,
                   nbytes_written, h_exit, h_ret, err_out, reported, std_out>>

\* A cleanup block that frees the buffer and leaves the BIO chain open.
ReleaseCallsLeak(bio) == <<"free">>

\* A cleanup block that frees the BIO chain a second time.
ReleaseCallsTwice(bio) ==
    IF bio # "NULL"
    THEN <<"BIO_free_all", "BIO_free_all", "free">>
    ELSE <<"free">>

\* Lines 214-216: the release calls of the cleanup block, for an ssl_bio in
\* state `bio`.
ReleaseCalls(bio) ==
    IF bio # "NULL" THEN <<"BIO_free_all", "free">> ELSE <<"free">>

\* Lines 213-227: the handler's cleanup, up to its return statement.
HCleanup ==
    /\ pc = "h_cleanup"
    /\ ops' = ops \o ReleaseCalls(ssl_bio)
    /\ ssl_bio' = IF Has(ReleaseCalls(ssl_bio), "BIO_free_all")
                  THEN "freed" ELSE ssl_bio
    /\ in_buf_mem' = IF Has(ReleaseCalls(ssl_bio), "free")
                     THEN "freed" ELSE in_buf_mem
    /\ live' = live - Count(ReleaseCalls(ssl_bio), "BIO_free_all")
    /\ \E q \in (IF Has(ReleaseCalls(ssl_bio), "BIO_free_all")
                 THEN Raise(errq, "BIO_free_all", iter) ELSE {errq}) :
          /\ h_exit' = IF ERR_peek_error(q) THEN 1 ELSE h_exit
          /\ err_out' = DrainOut(err_out, q)
          /\ reported' = DrainReported(reported, q)
          /\ errq' = DrainQueue(q)
    /\ h_ret' = h_exit'
    /\ pc' = "h_return"
    /\ UNCHANGED <<inputVars, serverVars, in_buf, stream, sent, endkind,
                   recv_shutdown, nbytes_read, ssl_error, nbytes_written,
                   std_out>>

\* Lines 227 and 119-121: the handler returns, its value is dropped, and the
\* iteration ends: the handler's locals and the connection are gone.
HandlerReturn ==
    /\ pc = "h_return"
    /\ pc' = AfterHandler(h_ret)
    /\ ops' = <<>>
    /\ ssl_bio' = "NULL"
    /\ in_buf_mem' = "NULL"
    /\ in_buf' = <<>>
    /\ stream' = <<>>
    /\ sent' = <<>>
    /\ endkind' = "silent"
    /\ recv_shutdown' = FALSE
    /\ nbytes_read' = 0
    /\ ssl_error' = "none"
    /\ nbytes_written' = -2
    /\ h_exit' = 0
    /\ err_out' = <<>>
    /\ reported' = <<>>
    /\ std_out' = <<>>
    /\ UNCHANGED live
    /\ UNCHANGED <<inputVars, serverVars, errq, h_ret>>

(* ------------------------------------------------------------------ Next *)

Next ==
    \/ Main
    \/ MainReturn
    \/ RunEnter
    \/ LoadKey
    \/ LoadCert
    \/ CheckKey
    \/ Bind
    \/ SetupPeek
    \/ SrvCleanup
    \/ AcceptFail
    \/ AcceptOk
    \/ HandlerEnter
    \/ Handshake
    \/ LoopCheck
    \/ GetLine
    \/ Write
    \/ Shutdown
    \/ HCleanup
    \/ HandlerReturn

Spec == Init /\ [][Next]_vars

TypeOK ==
    /\ iter \in 0..MaxIter
    /\ Len(errq) <= MaxErr
    /\ ssl_bio \in {"NULL", "open", "freed"}
    /\ h_ret \in {-1, 0, 1}

\* The program is one thread and every collaborator call that is able to
\* return does return: a step that can be taken is taken.  A read from a
\* client that stays silent is not enabled, so the program may rest there.
FairSpec == Spec /\ WF_vars(Next)

(* ---------------------------------------------------------------- claims *)

\* Positions inside handle_accepted_connection.
HandlerPcs ==
    {"enter", "handshake", "loop_check", "get_line", "write", "shutdown",
     "h_cleanup", "h_return"}

\* Positions inside the accept loop of run_tls_server.
LoopPcs == {"accept"} \cup HandlerPcs

\* Every step taken from the top of the loop is a call of BIO_do_accept on
\* the listening accept_bio.
NextIsAccept ==
    pc = "accept" =>
        /\ iter' = iter + 1
        /\ accept_bio = "listening"
        /\ accept_bio' = "listening"

\* C1: a handler call that ends in failure (handshake failure, read error,
\* short write) never ends the server: run_tls_server stays in its loop, has
\* not returned, the process has not exited, and the step after the handler's
\* return leads to the top of the loop, where the next step is an accept.
C1_ErrorsContained ==
    /\ [](h_ret = 1 => pc \in {"h_return", "accept"}
                        /\ run_ret = -1 /\ run_exit = 0 /\ exit_code = -1)
    /\ [][(pc = "h_return" /\ h_ret = 1) =>
            (pc' = "accept" /\ accept_bio' = "listening"
             /\ run_ret' = -1 /\ exit_code' = -1)]_vars
    /\ [][NextIsAccept]_vars

\* A second handler call has failed after an earlier iteration, the server is
\* back at the top of the loop and an accept can follow.
C1_Witness ==
    /\ pc = "accept"
    /\ h_ret = 1
    /\ iter = 2
    /\ iter < MaxIter
    /\ run_ret = -1

\* C2: a failed accept inside the loop is reported, creates no connection,
\* calls no handler, leaves run_tls_server in the loop, and is followed by
\* another accept on the same listening socket.
C2_AcceptFailureRetries ==
    /\ [][(pc = "accept" /\ err' <= 0) =>
            /\ pc' = "accept"
            /\ (err_out' # <<>>) = error_stream
            /\ (error_stream => err_out'[1] = MsgAccept)
            /\ ssl_bio' = "NULL"
            /\ live' = live
            /\ ops' = <<>>
            /\ h_ret' = -1
            /\ run_ret' = -1
            /\ accept_bio' = accept_bio]_vars
    /\ [][NextIsAccept]_vars

\* An accept has failed after an earlier iteration, and another can follow.
C2_Witness ==
    /\ pc = "accept"
    /\ err <= 0
    /\ iter = 2
    /\ iter < MaxIter
    /\ Has(err_out, MsgAccept)

\* The handler's release of the connection: the BIO chain and the buffer have
\* each been freed by exactly one call, the last two of the handler.
ReleasedOnce ==
    /\ Count(ops, "BIO_free_all") = 1
    /\ Count(ops, "free") = 1
    /\ Len(ops) >= 2
    /\ SubSeq(ops, Len(ops) - 1, Len(ops)) = <<"BIO_free_all", "free">>
    /\ ssl_bio = "freed"
    /\ in_buf_mem = "freed"
    /\ live = 0

\* C3: on every path through the handler the buffer and the BIO chain
\* (secure channel and underlying stream) are released exactly once before
\* it returns: not at all while it runs, once when it returns.
C3_ReleasedExactlyOnce ==
    /\ pc = "h_return" => ReleasedOnce
    /\ pc \in {"handshake", "loop_check", "get_line", "write", "shutdown",
                "h_cleanup"} =>
          /\ Count(ops, "BIO_free_all") = 0
          /\ Count(ops, "free") = 0
          /\ ssl_bio = "open"
          /\ in_buf_mem = "alloc"

\* The handler returns from its failure path after a read error.
C3_Witness ==
    /\ pc = "h_return"
    /\ h_ret = 1
    /\ nbytes_read <= 0
    /\ ssl_error = "SSL_ERROR_SYSCALL"
    /\ ReleasedOnce

\* C4: no BIO_get_line and no BIO_write on a connection follows
\* BIO_ssl_shutdown on it.
C4_NoIoAfterShutdown ==
    \A i \in 1..Len(ops) : \A j \in 1..Len(ops) :
        (i < j /\ ops[i] = "BIO_ssl_shutdown") =>
            ops[j] \notin {"BIO_get_line", "BIO_write"}

\* A handler that read, wrote and shut the channel down has returned.
C4_Witness ==
    /\ pc = "h_return"
    /\ Has(ops, "BIO_get_line")
    /\ Has(ops, "BIO_write")
    /\ Has(ops, "BIO_ssl_shutdown")

\* C5: at most one connection is unreleased at any time, and at the top of
\* the loop, where the next accept is made, none is.
C5_OneConnection ==
    /\ live <= 1
    /\ pc = "accept" => (live = 0 /\ ssl_bio # "open")
    /\ pc \in HandlerPcs \ {"h_return"} => live = 1

\* A connection is being served after the handler of an earlier one returned.
C5_Witness ==
    /\ pc = "get_line"
    /\ iter = 3
    /\ live = 1

\* The lines of a byte stream: each ends with its newline, except a last one
\* the client left unfinished.
RECURSIVE LinesOf(_)
LinesOf(s) ==
    IF s = <<>>
    THEN <<>>
    ELSE LET k == CHOOSE k \in 1..Len(s) :
                    /\ s[k] = "LF" \/ k = Len(s)
                    /\ \A j \in 1..(k - 1) : s[j] # "LF"
         IN  <<SubSeq(s, 1, k)>> \o LinesOf(SubSeq(s, k + 1, Len(s)))

\* A line with nothing before its line ending.
EmptyLine(l) == l = <<"LF">> \/ l = <<"CR", "LF">>

\* The client sends N >= 0 non-empty lines, each shorter than the buffer, and
\* then a terminator line, and nothing else.
RequestSent ==
    LET L == LinesOf(sent)
    IN  /\ Len(L) >= 1
        /\ EmptyLine(L[Len(L)])
        /\ \A i \in 1..(Len(L) - 1) :
              ~EmptyLine(L[i]) /\ Len(L[i]) < BUF_SIZE

RECURSIVE Repeat(_, _)
Repeat(s, n) == IF n = 0 THEN <<>> ELSE s \o Repeat(s, n - 1)

IsData(e) == e.k = "data"

\* The data echoed to stdout, in order.
Echoed == [i \in 1..Len(SelectSeq(std_out, IsData)) |->
              SelectSeq(std_out, IsData)[i].v]

\* The handshake of the current connection succeeded (line 168 was reached).
HandshakeDone == Has(std_out, Banner(OutReceiving))

\* The calls of a handler that reads n lines, writes once and ends with tail.
CallsOfRequest(n, tail) ==
    <<"BIO_do_handshake">> \o Repeat(<<"BIO_get_line", "fwrite">>, n)
        \o <<"BIO_write">> \o tail

\* C6 (as stated): after a successful handshake with a client that sends N
\* non-empty lines and a terminator, the handler makes exactly N+1 reads,
\* echoes the N+1 lines in order, then writes the response once, then shuts
\* the channel down, then closes.
C6_Original ==
    (pc = "h_return" /\ RequestSent /\ HandshakeDone) =>
        /\ ops = CallsOfRequest(Len(LinesOf(sent)),
                                <<"BIO_ssl_shutdown", "BIO_free_all", "free">>)
        /\ Echoed = LinesOf(sent)
        /\ nbytes_written = response_length

\* C6 (amended): the same reads, echoes and single write; the shutdown
\* follows when the write accepted the whole response, and otherwise the
\* handler closes without it.
C6_RequestServed ==
    (pc = "h_return" /\ RequestSent /\ HandshakeDone) =>
        /\ Echoed = LinesOf(sent)
        /\ Count(ops, "BIO_get_line") = Len(LinesOf(sent))
        /\ Count(ops, "BIO_write") = 1
        /\ ops = CallsOfRequest(
                    Len(LinesOf(sent)),
                    IF nbytes_written = response_length
                    THEN <<"BIO_ssl_shutdown", "BIO_free_all", "free">>
                    ELSE <<"BIO_free_all", "free">>)

\* A request of two non-empty lines and a terminator has been served.
C6_Witness ==
    /\ pc = "h_return"
    /\ RequestSent
    /\ HandshakeDone
    /\ Len(LinesOf(sent)) = 3
    /\ nbytes_written = response_length
    /\ Has(ops, "BIO_ssl_shutdown")

\* BIO_write has been called and did not take the whole response.
ShortWrite == nbytes_written # -2 /\ nbytes_written # response_length

\* C7: a write that accepts anything but the full length (zero and negative
\* included) is reported as a short write, is not retried, makes the handler
\* return failure without shutdown, and the handler still releases the
\* connection and returns to the loop.
C7_ShortWriteFails ==
    /\ [](ShortWrite =>
            /\ pc \in {"h_cleanup", "h_return"}
            /\ h_exit = 1
            /\ Count(ops, "BIO_write") = 1
            /\ ~Has(ops, "BIO_ssl_shutdown")
            /\ (error_stream => Has(err_out, MsgWrite))
            /\ (pc = "h_return" => h_ret = 1 /\ ReleasedOnce))
    /\ [][(ShortWrite /\ pc = "h_cleanup") => pc' = "h_return"]_vars
    /\ [][(ShortWrite /\ pc = "h_return") => pc' = "accept"]_vars

\* A write that accepted nothing: the handler has returned failure.
C7_Witness ==
    /\ pc = "h_return"
    /\ nbytes_written = 0
    /\ h_ret = 1
    /\ ReleasedOnce

\* C8: a clean shutdown by the peer seen in the read loop, as the
\* received-shutdown flag before a read or as a read returning <= 0 with
\* SSL_ERROR_ZERO_RETURN, ends the loop normally: the handler goes on to write
\* the response and no read error is recorded.
C8_PeerShutdownEndsLoop ==
    /\ [][(pc = "loop_check" /\ recv_shutdown) =>
            (pc' = "write" /\ h_exit' = 0 /\ err_out' = err_out)]_vars
    /\ [][(pc = "get_line" /\ nbytes_read' <= 0
            /\ ssl_error' = "SSL_ERROR_ZERO_RETURN") =>
            (pc' = "write" /\ h_exit' = 0 /\ err_out' = err_out)]_vars
    /\ []((recv_shutdown /\ pc \in {"h_cleanup", "h_return"}) =>
            (Has(ops, "BIO_write") /\ ~Has(err_out, MsgRead)))

\* The client sent part of a line and closed cleanly: the handler is about to
\* write the response.
C8_Witness ==
    /\ pc = "write"
    /\ recv_shutdown
    /\ nbytes_read > 0
    /\ ~EmptyLine(in_buf)
    /\ h_exit = 0

\* The setup calls in the order run_tls_server makes them.
SetupOrder ==
    <<"SSL_CTX_new", "SSL_CTX_use_PrivateKey_file",
      "SSL_CTX_use_certificate_chain_file", "SSL_CTX_check_private_key",
      "BIO_new_accept", "BIO_do_accept">>

BadCredentials == ~key_ok \/ ~cert_ok \/ ~match_ok

\* The message and the call of the first of the three checks that fails.
FirstFailureMsg ==
    IF ~key_ok THEN MsgKey ELSE IF ~cert_ok THEN MsgCert ELSE MsgMismatch

FirstFailureCall ==
    IF ~key_ok THEN 2 ELSE IF ~cert_ok THEN 3 ELSE 4

\* C9: when the key cannot be loaded, the chain cannot be loaded or the key
\* does not match, run_tls_server returns 1 (the process exits 1) without
\* any bind/listen or accept; the checks are made in the order key, chain,
\* match, and the first failing one is the last call made and the error
\* reported.
C9_BadCredentialsFail ==
    /\ setup_ops = SubSeq(SetupOrder, 1, Len(setup_ops))
    /\ BadCredentials =>
          /\ ~Has(setup_ops, "BIO_new_accept")
          /\ ~Has(setup_ops, "BIO_do_accept")
          /\ accept_bio = "NULL"
          /\ iter = 0
          /\ pc \notin LoopPcs \cup {"bind", "setup_peek"}
          /\ pc = "returned" => run_ret = 1
          /\ pc = "exited" => exit_code = 1
          /\ (pc \in {"srv_cleanup", "returned", "exited"} /\ setup_ops # <<>>) =>
                /\ Len(setup_ops) = FirstFailureCall
                /\ run_exit = 1
                /\ (error_stream => err_out[1] = FirstFailureMsg)

\* Key and chain load, the key does not match: the process has exited 1.
C9_Witness ==
    /\ pc = "exited"
    /\ key_ok /\ cert_ok /\ ~match_ok
    /\ exit_code = 1
    /\ Has(err_out, MsgMismatch)
    /\ Len(setup_ops) = 4

\* C10: the error queue is empty whenever the loop calls accept and whenever
\* a handler starts its handshake, and every record pending in, or reported
\* by, the handler of an iteration was raised during that iteration.
C10_NoDiagnosticLeak ==
    /\ pc \in {"accept", "handshake"} => errq = <<>>
    /\ pc \in LoopPcs =>
          \A i \in 1..Len(reported) : reported[i].iter = iter
    /\ pc \in HandlerPcs =>
          \A i \in 1..Len(errq) : errq[i].iter = iter

\* In a later iteration a handler reported records and returned.
C10_Witness ==
    /\ pc = "h_return"
    /\ iter = 3
    /\ Len(reported) = 2
    /\ errq = <<>>

\* C11: started with any number of positional arguments other than three
\* (argc other than 4), main prints the usage message and exits 1 without
\* calling run_tls_server: no SSL_CTX is built and nothing is bound.
C11_UsageOnWrongCount ==
    (argc \in 1..MaxArgc /\ argc # 4 /\ pc # "main") =>
        /\ pc = "exited"
        /\ exit_code = 1
        /\ Has(err_out, MsgUsage)
        /\ setup_ops = <<>>
        /\ ctx = "NULL"
        /\ accept_bio = "NULL"

\* The failure messages of the handler's three goto failure paths.
FailureMsgs == {MsgHandshake, MsgRead, MsgWrite}

\* The handler reached BIO_ssl_shutdown: handshake, read loop and write
\* succeeded.
ShutdownDone == Has(ops, "BIO_ssl_shutdown")

\* C12 (as stated): after a successful handshake, read loop and write, an
\* error of the shutdown does not make the handler take the failure path or
\* return a failure result, and what it left in the queue is drained,
\* reported and cleared before the return.  (With a stream present, a
\* handler whose only reported records are the shutdown's returns 0.)
C12_Original ==
    (pc = "h_return" /\ ShutdownDone /\ error_stream
     /\ \A i \in 1..Len(reported) : reported[i].op = "BIO_ssl_shutdown") =>
        /\ h_ret = 0
        /\ errq = <<>>
        /\ \A i \in 1..Len(err_out) : err_out[i] \notin FailureMsgs

\* C12 (amended): the shutdown's result is not looked at and the handler
\* goes to cleanup, not failure, with no failure message; the cleanup
\* prints (when a stream is present) and clears every record pending after
\* the shutdown, and the handler returns 1 when a record was pending and
\* returns 1 only if it drained one.
C12_ShutdownErrorDrained ==
    /\ [][pc = "shutdown" =>
            (pc' = "h_cleanup" /\ h_exit' = 0 /\ err_out' = err_out)]_vars
    /\ [][(pc = "h_cleanup" /\ ShutdownDone) =>
            /\ pc' = "h_return"
            /\ errq' = <<>>
            /\ (errq # <<>> => h_ret' = 1)
            /\ (error_stream =>
                  /\ Len(reported') >= Len(errq)
                  /\ SubSeq(reported', 1, Len(errq)) = errq
                  /\ (h_ret' = 1) = (reported' # <<>>)
                  /\ (reported' # <<>>) = Has(err_out', MsgQueue))]_vars
    /\ []((pc = "h_return" /\ ShutdownDone) =>
            \A i \in 1..Len(err_out) : err_out[i] \notin FailureMsgs)

\* The shutdown left a record: the handler printed it, cleared the queue and
\* returned.
C12_Witness ==
    /\ pc = "h_return"
    /\ ShutdownDone
    /\ Len(reported) = 1
    /\ reported[1].op = "BIO_ssl_shutdown"
    /\ errq = <<>>
    /\ h_ret = 1

\* C13: there is no normal termination.  Inside the accept loop
\* run_tls_server has not returned and every step stays inside the loop; so
\* run_tls_server returns 1 if it returns, the process exits 1 if it exits,
\* and "TLS communication succeeded" is never printed.
C13_NoNormalTermination ==
    /\ [](run_ret \in {-1, 1})
    /\ [](pc = "exited" => exit_code = 1)
    /\ [](~Has(err_out, MsgCommSucceeded))
    /\ [](pc \in LoopPcs => run_ret = -1 /\ exit_code = -1)
    /\ [](pc \in {"srv_cleanup", "returned", "exited"} => iter = 0)
    /\ [][(pc \in LoopPcs) => (pc' \in LoopPcs)]_vars

\* The bind failed: the process has exited with code 1.
C13_Witness ==
    /\ pc = "exited"
    /\ exit_code = 1
    /\ run_ret = 1
    /\ Has(err_out, MsgBind)
    /\ Has(err_out, MsgCommFailed)

\* BIO_do_handshake was called and failed.
HandshakeFailed == Has(ops, "BIO_do_handshake") /\ ~HandshakeDone

\* The last read returned <= 0 for a reason other than the peer's clean
\* shutdown.
ReadFailed ==
    /\ Has(ops, "BIO_get_line")
    /\ nbytes_read <= 0
    /\ ssl_error # "SSL_ERROR_ZERO_RETURN"

\* C14: the response is written at most once per connection, and only after
\* the handshake succeeded and the read loop ended normally; after a failed
\* handshake or a read error the handler is on its failure path, where it
\* writes nothing, shuts nothing down and only releases the connection.
C14_WriteOnlyAfterNormalRead ==
    /\ Count(ops, "BIO_write") <= 1
    /\ Has(ops, "BIO_write") =>
          /\ HandshakeDone
          /\ Has(std_out, Banner(OutReceived))
          /\ ~ReadFailed
    /\ (HandshakeFailed \/ ReadFailed) =>
          /\ pc \in {"h_cleanup", "h_return"}
          /\ h_exit = 1
          /\ ~Has(ops, "BIO_write")
          /\ ~Has(ops, "BIO_ssl_shutdown")
          /\ (error_stream =>
                Has(err_out, IF HandshakeFailed THEN MsgHandshake ELSE MsgRead))
          /\ (pc = "h_return" => h_ret = 1 /\ ReleasedOnce)

\* After a line was read and echoed, a read failed: the handler has returned
\* from its failure path.
C14_Witness ==
    /\ pc = "h_return"
    /\ ReadFailed
    /\ Count(ops, "BIO_get_line") >= 2
    /\ ~Has(ops, "BIO_write")
    /\ ReleasedOnce

\* C15 (as stated): once the SSL_CTX is built and the bind/listen succeeded
\* (accept_bio is listening), run_tls_server is on its way into the accept
\* loop or inside it.
C15_Original ==
    accept_bio = "listening" => pc \in {"setup_peek"} \cup LoopPcs

\* C15 (amended): after a successful bind the queue is tested; when it is
\* empty the server enters the loop, where its next step is the first
\* accept; when a setup call left a record, run_tls_server reports an
\* unexpected setup error and fails, which is the only way a listening
\* server is outside the loop.
C15_LoopEnteredAfterCleanSetup ==
    /\ [][(pc = "bind" /\ err' = 1) =>
            (pc' = "setup_peek" /\ accept_bio' = "listening")]_vars
    /\ [][pc = "setup_peek" =>
            IF errq = <<>>
            THEN pc' = "accept" /\ run_exit' = 0 /\ err_out' = err_out
            ELSE /\ pc' = "srv_cleanup"
                 /\ run_exit' = 1
                 /\ (error_stream => Has(err_out', MsgSetup))]_vars
    /\ []((pc = "accept" /\ iter = 0) =>
            /\ setup_ops = SetupOrder
            /\ accept_bio = "listening"
            /\ errq = <<>>
            /\ iter < MaxIter)
    /\ []((accept_bio = "listening" /\ pc \notin {"setup_peek"} \cup LoopPcs) =>
            (pc = "srv_cleanup" /\ run_exit = 1 /\ errq # <<>>))
    /\ [][NextIsAccept]_vars

\* Setup and bind succeeded with an empty queue, and the first accept has
\* been made and has returned a connection.
C15_Witness ==
    /\ pc = "enter"
    /\ iter = 1
    /\ setup_ops = SetupOrder
    /\ accept_bio = "listening"

\* What the handler has taken from the client's bytes so far.
Consumed == SubSeq(sent, 1, Len(sent) - Len(stream))

\* The read loop was left at line 182-183: the last chunk read compared equal
\* to "\r\n" or "\n".
EndedByTerminator ==
    /\ pc \in {"write", "shutdown", "h_cleanup", "h_return"}
    /\ nbytes_read > 0
    /\ IsTerminator(in_buf)

\* C17: when the read loop ends by the terminator rule, the last line the
\* client sent up to that point is an empty line (nothing before its line
\* ending); the tail chunk of a longer non-empty line is not taken as the
\* terminator.
C17_TerminatorIsEmptyLine ==
    EndedByTerminator =>
        LET L == LinesOf(Consumed)
        IN  Len(L) >= 1 /\ EmptyLine(L[Len(L)])

\* The client sent an empty line somewhere in its bytes.
TerminatorSent ==
    \E i \in 1..Len(LinesOf(sent)) : EmptyLine(LinesOf(sent)[i])

\* The peer sends a terminator line, or ends its side: by a clean shutdown
\* or in a way that makes the read fail.
PeerEnds == TerminatorSent \/ endkind # "silent"

\* ReadingRequest: the handler is in its read loop.
Reading == pc \in {"loop_check", "get_line"}

\* Closed: the handler has released the connection and is about to return.
Closed == pc = "h_return" /\ ssl_bio = "freed" /\ live = 0

\* Every accepted connection whose peer ends is closed, the server is back at
\* the top of its loop, and (the bound on iterations permitting) it makes the
\* next accept.
C18_EventuallyClosed ==
    /\ \A k \in 1..MaxIter :
          (pc = "enter" /\ iter = k /\ PeerEnds) ~> (Closed /\ iter = k)
    /\ \A k \in 1..MaxIter :
          (pc = "enter" /\ iter = k /\ PeerEnds) ~> (pc = "accept" /\ iter = k)
    /\ \A k \in 1..(MaxIter - 1) :
          (pc = "enter" /\ iter = k /\ PeerEnds) ~> (iter = k + 1)

\* With a peer that sends no terminator line and then stays silent, the
\* handler stays in its read loop with the connection open, and the server
\* accepts nothing further.
C18_SilentPeerKeepsReading ==
    [][(Reading /\ ~PeerEnds) =>
          (Reading' /\ iter' = iter /\ ssl_bio' = "open" /\ live' = 1)]_vars

\* C18: if every blocking call returns and the peer eventually sends a
\* terminator line, shuts down or causes a read error, every accepted
\* connection eventually reaches Closed and the server performs the next
\* accept; with a peer that does none of these the handler never leaves its
\* read loop and no further connection is accepted.
C18_ClosedUnlessPeerSilent ==
    C18_EventuallyClosed /\ C18_SilentPeerKeepsReading

====
